---- MODULE Spec2Model ----
(***************************************************************************)
(* Model of argparse/downloader.py: the module builds an ArgumentParser    *)
(* (lines 3-9), calls parser.parse_args() on the process argument vector   *)
(* (line 10) and, when args.verbosity is truthy, prints three lines        *)
(* (lines 12-15).                                                          *)
(*                                                                         *)
(* An argument string is a sequence of one-character strings, so that the  *)
(* classification of a string (option / argument / "--"), the splitting    *)
(* of "-t5" and "--threads=5", the int() conversion and str() formatting   *)
(* are computed character by character as the interpreter does.            *)
(* parse_args is modelled after CPython 3.11 argparse._parse_known_args.   *)
(*                                                                         *)
(* Where an intermediate result is used several times it is bound through  *)
(* a singleton set (CHOOSE r \in {F(x) : x \in {e}} : TRUE, \E x \in {e}),  *)
(* which evaluates e once.                                                 *)
(***************************************************************************)
EXTENDS Integers, Sequences, FiniteSets, TLC

(* ------------------------------ bounds --------------------------------- *)
\* longest argument vector drawn from CoreTokens
MaxArgs == 3
\* longest value string drawn from ValueChars for -t / --threads
MaxValueLen == 2

(* ------------------------- characters, strings ------------------------- *)
Digits == {"0", "1", "2", "3", "4", "5", "6", "7", "8", "9"}

DigitVal(c) ==
    CASE c = "0" -> 0 [] c = "1" -> 1 [] c = "2" -> 2 [] c = "3" -> 3
      [] c = "4" -> 4 [] c = "5" -> 5 [] c = "6" -> 6 [] c = "7" -> 7
      [] c = "8" -> 8 [] c = "9" -> 9

DigitChar(d) ==
    CASE d = 0 -> "0" [] d = 1 -> "1" [] d = 2 -> "2" [] d = 3 -> "3"
      [] d = 4 -> "4" [] d = 5 -> "5" [] d = 6 -> "6" [] d = 7 -> "7"
      [] d = 8 -> "8" [] d = 9 -> "9"

\* s[from:] of Python, 1-based: the elements of s from position i on
Tail2(s, i) == IF i > Len(s) THEN <<>> ELSE SubSeq(s, i, Len(s))

\* o.startswith(p)
StartsWith(o, p) == Len(p) <= Len(o) /\ SubSeq(o, 1, Len(p)) = p

\* c in s
Contains(s, c) == \E i \in 1..Len(s) : s[i] = c

\* position of the first c in s (s.split(c, 1) cuts there)
FirstIndex(s, c) == CHOOSE i \in 1..Len(s) : s[i] = c /\ \A j \in 1..(i-1) : s[j] # c

(* ------------------------------ values --------------------------------- *)
\* Python values held by the namespace: None, str, int, list
None == [kind |-> "none", val |-> <<>>]
Str(s) == [kind |-> "str", val |-> s]
IntV(n) == [kind |-> "int", val |-> n]
ListV(l) == [kind |-> "list", val |-> l]

\* variant of Truthy: `if args.verbosity is not None:`
TruthyWhenSet(v) == v.kind # "none"

\* bool(v) as evaluated by `if args.verbosity:`
Truthy(v) ==
    CASE v.kind = "none" -> FALSE
      [] v.kind = "str" -> v.val # <<>>
      [] v.kind = "list" -> v.val # <<>>
      [] v.kind = "int" -> v.val # 0

RECURSIVE NatToStr(_)
\* decimal digits of a natural number
NatToStr(n) == IF n < 10 THEN <<DigitChar(n)>>
               ELSE NatToStr(n \div 10) \o <<DigitChar(n % 10)>>

RECURSIVE ReprItems(_)
\* the items of repr(list of str), comma separated
ReprItems(l) ==
    IF l = <<>> THEN <<>>
    ELSE <<"'">> \o Head(l) \o <<"'">>
         \o (IF Len(l) > 1 THEN <<",", " ">> ELSE <<>>) \o ReprItems(Tail(l))

\* str(v), as used by print() and str.format()
PyStr(v) ==
    CASE v.kind = "none" -> <<"N", "o", "n", "e">>
      [] v.kind = "str" -> v.val
      [] v.kind = "int" -> IF v.val < 0 THEN <<"-">> \o NatToStr(-v.val)
                           ELSE NatToStr(v.val)
      [] v.kind = "list" -> <<"[">> \o ReprItems(v.val) \o <<"]">>

(* ------------------------------- int() ---------------------------------- *)
RECURSIVE Strip(_)
\* str.strip() for the blank character
Strip(s) ==
    IF s = <<>> THEN s
    ELSE IF s[1] = " " THEN Strip(Tail(s))
    ELSE IF s[Len(s)] = " " THEN Strip(SubSeq(s, 1, Len(s) - 1))
    ELSE s

\* digits with single underscores between them
IsDigitBody(b) ==
    /\ b # <<>>
    /\ \A i \in 1..Len(b) : b[i] \in Digits \cup {"_"}
    /\ b[1] \in Digits /\ b[Len(b)] \in Digits
    /\ \A i \in 1..(Len(b) - 1) : ~(b[i] = "_" /\ b[i+1] = "_")

RECURSIVE BodyVal(_, _)
BodyVal(b, acc) ==
    IF b = <<>> THEN acc
    ELSE IF b[1] = "_" THEN BodyVal(Tail(b), acc)
    ELSE BodyVal(Tail(b), 10 * acc + DigitVal(b[1]))

\* int(s): [ok |-> TRUE, val |-> n] or [ok |-> FALSE] for ValueError
PyInt(s) ==
    LET Convert(t) ==
            LET signed == t # <<>> /\ t[1] \in {"+", "-"}
                body == IF signed THEN Tail(t) ELSE t
            IN  IF IsDigitBody(body)
                THEN [ok |-> TRUE,
                      val |-> IF signed /\ t[1] = "-" THEN -BodyVal(body, 0)
                              ELSE BodyVal(body, 0)]
                ELSE [ok |-> FALSE, val |-> 0]
    IN  CHOOSE r \in {Convert(t) : t \in {Strip(s)}} : TRUE

(* ------------------- the parser built by lines 3-9 ---------------------- *)
OptH == <<"-", "h">>
OptHelp == <<"-", "-", "h", "e", "l", "p">>
OptV == <<"-", "v">>
OptVerbosity == <<"-", "-", "v", "e", "r", "b", "o", "s", "i", "t", "y">>
OptQ == <<"-", "q">>
OptQuality == <<"-", "-", "q", "u", "a", "l", "i", "t", "y">>
OptT == <<"-", "t">>
OptThreads == <<"-", "-", "t", "h", "r", "e", "a", "d", "s">>
DashDash == <<"-", "-">>

Q1080p == <<"1", "0", "8", "0", "p">>
Q720p == <<"7", "2", "0", "p">>
Q480p == <<"4", "8", "0", "p">>

\* parser._option_string_actions: option string -> dest of its action
OptionStringActions ==
    (OptH :> "help") @@ (OptHelp :> "help")
    @@ (OptV :> "verbosity") @@ (OptVerbosity :> "verbosity")
    @@ (OptQ :> "quality") @@ (OptQuality :> "quality")
    @@ (OptT :> "threads") @@ (OptThreads :> "threads")

OptionStrings == DOMAIN OptionStringActions

\* parser._actions, by dest
Actions == {"help", "links", "verbosity", "quality", "threads"}

\* action.nargs: 0 for help, '+' for links, None (one argument) otherwise
Nargs(action) ==
    CASE action = "help" -> "0"
      [] action = "links" -> "+"
      [] OTHER -> "None"

\* action.required: a positional with nargs='+' is required
Required(action) == action = "links"

\* choices=['1080p', '720p', '480p']
QualityChoices == {Q1080p, Q720p, Q480p}

\* choices=range(1, 32)
ThreadsChoices == 1..31

\* variant of DefaultNamespace: the first choice as the default quality
DefaultNamespaceFirstChoice ==
    [links |-> None, verbosity |-> None, quality |-> Str(Q1080p), threads |-> IntV(1)]

\* the namespace before parsing: every dest set to its action's default
DefaultNamespace ==
    [links |-> None, verbosity |-> None, quality |-> Str(Q720p), threads |-> IntV(1)]

\* a namespace not yet built (before parse_args runs)
NoNamespace ==
    [links |-> None, verbosity |-> None, quality |-> None, threads |-> None]

(* ------------------------ _parse_optional ------------------------------- *)
\* results of _parse_optional: None (a positional) / an option tuple / error
Positional == [kind |-> "A", action |-> "", option_string |-> <<>>, explicit_arg |-> None]
OptionTuple(a, o, e) == [kind |-> "O", action |-> a, option_string |-> o, explicit_arg |-> e]
Ambiguous == [kind |-> "ambiguous", action |-> "", option_string |-> <<>>, explicit_arg |-> None]

\* parser._negative_number_matcher: '^-\d+$|^-\d*\.\d+$'
NegativeNumberMatcher(s) ==
    /\ Len(s) >= 2 /\ s[1] = "-"
    /\ \/ \A i \in 2..Len(s) : s[i] \in Digits
       \/ \E d \in 2..(Len(s) - 1) :
            /\ s[d] = "."
            /\ \A i \in 2..(d - 1) : s[i] \in Digits
            /\ \A i \in (d + 1)..Len(s) : s[i] \in Digits

\* _get_option_tuples: the interpretations of an option string that is not
\* itself registered (abbreviated long options, "-t5")
GetOptionTuples(s) ==
    IF s[1] = "-" /\ s[2] = "-"
    THEN LET hasEq == Contains(s, "=")
             eq == IF hasEq THEN FirstIndex(s, "=") ELSE 0
             option_prefix == IF hasEq THEN SubSeq(s, 1, eq - 1) ELSE s
             explicit_arg == IF hasEq THEN Str(Tail2(s, eq + 1)) ELSE None
         IN  {OptionTuple(OptionStringActions[o], o, explicit_arg) :
                o \in {x \in OptionStrings : StartsWith(x, option_prefix)}}
    ELSE LET short_option_prefix == SubSeq(s, 1, 2)
             short_explicit_arg == Str(Tail2(s, 3))
         IN  {OptionTuple(OptionStringActions[o], o, short_explicit_arg) :
                o \in {x \in OptionStrings : x = short_option_prefix}}
             \cup
             {OptionTuple(OptionStringActions[o], o, None) :
                o \in {x \in OptionStrings : x # short_option_prefix /\ StartsWith(x, s)}}

\* _parse_optional(arg_string)
ParseOptional(s) ==
    IF s = <<>> THEN Positional
    ELSE IF s[1] # "-" THEN Positional
    ELSE IF s \in OptionStrings THEN OptionTuple(OptionStringActions[s], s, None)
    ELSE IF Len(s) = 1 THEN Positional
    ELSE IF /\ Contains(s, "=")
            /\ SubSeq(s, 1, FirstIndex(s, "=") - 1) \in OptionStrings
         THEN LET eq == FirstIndex(s, "=")
                  o == SubSeq(s, 1, eq - 1)
              IN  OptionTuple(OptionStringActions[o], o, Str(Tail2(s, eq + 1)))
    ELSE CHOOSE r \in {IF Cardinality(option_tuples) > 1 THEN Ambiguous
                       ELSE IF Cardinality(option_tuples) = 1
                            THEN CHOOSE t \in option_tuples : TRUE
                       ELSE IF NegativeNumberMatcher(s) THEN Positional
                       ELSE IF Contains(s, " ") THEN Positional
                       ELSE OptionTuple("", s, None) :
                       option_tuples \in {GetOptionTuples(s)}} : TRUE

RECURSIVE PatternFrom(_, _, _)
\* the loop of _parse_known_args that classifies every arg string:
\* 'O' option, 'A' argument, '-' the first "--"; all after "--" are 'A'
PatternFrom(arg_strings, i, afterDashes) ==
    IF i > Len(arg_strings) THEN <<>>
    ELSE IF afterDashes THEN <<"A">> \o PatternFrom(arg_strings, i + 1, TRUE)
    ELSE IF arg_strings[i] = DashDash
         THEN <<"-">> \o PatternFrom(arg_strings, i + 1, TRUE)
    ELSE IF ParseOptional(arg_strings[i]).kind = "A"
         THEN <<"A">> \o PatternFrom(arg_strings, i + 1, FALSE)
    ELSE <<"O">> \o PatternFrom(arg_strings, i + 1, FALSE)

ArgStringsPattern(arg_strings) == PatternFrom(arg_strings, 1, FALSE)

\* the indices recorded in option_string_indices, read off the pattern
OptionStringIndices(pattern) == {i \in 1..Len(pattern) : pattern[i] = "O"}

\* _parse_optional raised "ambiguous option" while classifying (before any "--")
ClassifyFails(arg_strings, pattern) ==
    \E i \in OptionStringIndices(pattern) :
        ParseOptional(arg_strings[i]).kind = "ambiguous"

(* --------------------- matching and conversion -------------------------- *)
RECURSIVE LeadingRun(_, _)
\* length of the longest prefix of pattern whose symbols are all in syms
LeadingRun(pattern, syms) ==
    IF pattern = <<>> \/ pattern[1] \notin syms THEN 0
    ELSE 1 + LeadingRun(Tail(pattern), syms)

\* re.match of the nargs pattern of an optional: '(A)' for nargs=None,
\* '()' for nargs=0 ("--" is not allowed); -1 when there is no match
MatchArgument(action, pattern) ==
    IF Nargs(action) = "0" THEN 0
    ELSE IF pattern # <<>> /\ pattern[1] = "A" THEN 1
    ELSE -1

\* _match_arguments_partial for the positionals still to be parsed: links
\* matches '(-*A[A-]*)'; the result is empty when nothing matches
MatchArgumentsPartial(positionals, pattern) ==
    IF positionals = <<>> THEN <<>>
    ELSE LET dashes == LeadingRun(pattern, {"-"})
         IN  IF dashes < Len(pattern) /\ pattern[dashes + 1] = "A"
             THEN <<LeadingRun(pattern, {"A", "-"})>>
             ELSE <<>>

\* variant of RemoveFirst: the "--" is left in the list
RemoveFirstKeep(l, x) == l

RECURSIVE RemoveFirst(_, _)
\* list.remove(x): drops the first element equal to x, if any
RemoveFirst(l, x) ==
    IF l = <<>> THEN l
    ELSE IF Head(l) = x THEN Tail(l)
    ELSE <<Head(l)>> \o RemoveFirst(Tail(l), x)

Ok(v) == [ok |-> TRUE, value |-> v, msg |-> ""]
Err(m) == [ok |-> FALSE, value |-> None, msg |-> m]

\* _get_value: type=int for threads, the identity on str otherwise
GetValue(action, arg_string) ==
    IF action = "threads"
    THEN CHOOSE r \in {IF n.ok THEN Ok(IntV(n.val)) ELSE Err("invalid int value") :
                       n \in {PyInt(arg_string)}} : TRUE
    ELSE Ok(Str(arg_string))

\* _check_value: the converted value must be one of the choices, if any
CheckValue(action, value) ==
    CASE action = "quality" -> value.kind = "str" /\ value.val \in QualityChoices
      [] action = "threads" -> value.kind = "int" /\ value.val \in ThreadsChoices
      [] OTHER -> TRUE

\* _get_values: strips the first "--", then converts and checks; a single
\* string for nargs=None gives one value, anything else gives a list
GetValues(action, argument_strings) ==
    LET Convert(arg_strings) ==
            LET values == [i \in 1..Len(arg_strings) |-> GetValue(action, arg_strings[i])]
            IN  IF Len(arg_strings) = 1 /\ Nargs(action) = "None"
                THEN IF ~values[1].ok THEN values[1]
                     ELSE IF ~CheckValue(action, values[1].value) THEN Err("invalid choice")
                     ELSE values[1]
                ELSE IF \E i \in 1..Len(arg_strings) : ~values[i].ok
                     THEN Err("invalid int value")
                     ELSE IF \E i \in 1..Len(arg_strings) :
                                ~CheckValue(action, values[i].value)
                     THEN Err("invalid choice")
                     ELSE Ok(ListV([i \in 1..Len(arg_strings) |-> values[i].value.val]))
    IN  CHOOSE r \in {Convert(l) : l \in {RemoveFirst(argument_strings, DashDash)}} : TRUE

\* outcome of taking actions: the namespace and seen_actions after them, or
\* an ArgumentError (kind "error"), or the help action's exit (kind "help")
Taken(ns, seen) == [kind |-> "ok", ns |-> ns, seen |-> seen, msg |-> ""]
Raised(m) == [kind |-> "error", ns |-> NoNamespace, seen |-> {}, msg |-> m]
HelpExit == [kind |-> "help", ns |-> NoNamespace, seen |-> {}, msg |-> ""]

\* take_action: add to seen_actions, convert, then call the action
\* (_StoreAction does setattr; _HelpAction prints help and exits)
TakeAction(ns, seen, action, argument_strings) ==
    CHOOSE t \in {IF ~r.ok THEN Raised(r.msg)
                  ELSE IF action = "help" THEN HelpExit
                  ELSE Taken([ns EXCEPT ![action] = r.value], seen \cup {action}) :
                  r \in {GetValues(action, argument_strings)}} : TRUE

RECURSIVE TakeActions(_, _, _)
\* `for action, args, option_string in action_tuples: take_action(...)`
TakeActions(ns, seen, action_tuples) ==
    IF action_tuples = <<>> THEN Taken(ns, seen)
    ELSE CHOOSE t \in {IF r.kind # "ok" THEN r
                       ELSE TakeActions(r.ns, r.seen, Tail(action_tuples)) :
                       r \in {TakeAction(ns, seen, Head(action_tuples).action,
                                         Head(action_tuples).args)}} : TRUE

(* --------------------------- consume_optional --------------------------- *)
Matched(tuples, stop) == [kind |-> "ok", action_tuples |-> tuples, stop |-> stop, msg |-> ""]
Unmatched(m) == [kind |-> "error", action_tuples |-> <<>>, stop |-> 0, msg |-> m]
Extra(stop) == [kind |-> "extra", action_tuples |-> <<>>, stop |-> stop, msg |-> ""]

RECURSIVE OptionalLoop(_, _, _, _, _, _, _)
\* the `while True` of consume_optional: splits "-hv" into -h -v, binds an
\* explicit argument ("-t5", "--threads=5") or the following arg strings
OptionalLoop(arg_strings, pattern, start_index, action, option_string, explicit_arg, action_tuples) ==
    IF action = "" THEN Extra(start_index + 1)
    ELSE IF explicit_arg.kind # "none"
    THEN LET arg_count == MatchArgument(action, <<"A">>)
         IN  IF arg_count = 0 /\ option_string[2] # "-" /\ explicit_arg.val # <<>>
             THEN LET new_option_string == <<option_string[1], explicit_arg.val[1]>>
                      new_explicit_arg == IF Len(explicit_arg.val) > 1
                                          THEN Str(Tail(explicit_arg.val)) ELSE None
                  IN  IF new_option_string \in OptionStrings
                      THEN OptionalLoop(arg_strings, pattern, start_index,
                                        OptionStringActions[new_option_string],
                                        new_option_string, new_explicit_arg,
                                        Append(action_tuples,
                                               [action |-> action, args |-> <<>>]))
                      ELSE Unmatched("ignored explicit argument")
             ELSE IF arg_count = 1
             THEN Matched(Append(action_tuples,
                                 [action |-> action, args |-> <<explicit_arg.val>>]),
                          start_index + 1)
             ELSE Unmatched("ignored explicit argument")
    ELSE LET start == start_index + 1
             arg_count == MatchArgument(action, Tail2(pattern, start))
         IN  IF arg_count < 0 THEN Unmatched("expected one argument")
             ELSE Matched(Append(action_tuples,
                                 [action |-> action,
                                  args |-> SubSeq(arg_strings, start, start + arg_count - 1)]),
                          start + arg_count)

\* consume_optional(start_index) up to, not including, its take_action calls
ConsumeOptional(arg_strings, pattern, start_index) ==
    CHOOSE m \in {OptionalLoop(arg_strings, pattern, start_index, option_tuple.action,
                               option_tuple.option_string, option_tuple.explicit_arg, <<>>) :
                  option_tuple \in {ParseOptional(arg_strings[start_index])}} : TRUE

(* ------------------------- argument vectors ----------------------------- *)
LinkA == <<"a">>
LinkB == <<"b">>
Empty == <<>>
ValFalse == <<"f", "a", "l", "s", "e">>
ValX == <<"x">>
Val4k == <<"4", "k">>
OptUnknown == <<"-", "x">>
MinusOne == <<"-", "1">>
DashDashEq == <<"-", "-", "=">>

\* arg strings combined freely, up to MaxArgs of them
CoreTokens ==
    {LinkA, LinkB, Empty, OptV, OptQ, OptT, OptH, DashDash, ValFalse, Q1080p,
     Val4k, <<"5">>, <<"0">>, OptUnknown, MinusOne, DashDashEq}

GeneralArgvs == UNION {[1..n -> CoreTokens] : n \in 0..MaxArgs}

\* characters of the value strings tried with -t / --threads
ValueChars == Digits \cup {"+", "-", "_", " ", "a"}

ThreadsValues == UNION {[1..n -> ValueChars] : n \in 0..MaxValueLen}

QualityValues ==
    QualityChoices \cup {Val4k, Empty, DashDash, <<"7", "2", "0">>,
                         <<"1", "0", "8", "0", "P">>, <<"p">>}

VerbosityValues == {Empty, ValFalse, ValX, DashDash, <<"0">>, MinusOne}

\* the ways of passing value to the option with strings short / long:
\* "-t 5", "--threads 5", "-t5", "-t=5", "--threads=5"
OptionForms(short, long, value) ==
    {<<short, value>>, <<long, value>>, <<short \o <<"=">> \o value>>,
     <<long \o <<"=">> \o value>>}
    \cup (IF value # <<>> /\ value[1] # "=" THEN {<<short \o value>>} ELSE {})

FamilyLinks == {<<LinkA>>, <<LinkA, LinkB>>, <<LinkB, LinkB>>}

\* links before or after one option
OneOption(links, forms) == {l \o f : l \in links, f \in forms}
                           \cup {f \o l : l \in links, f \in forms}

ThreadsArgvs ==
    UNION {OneOption({<<LinkA>>}, OptionForms(OptT, OptThreads, v)) : v \in ThreadsValues}

QualityArgvs ==
    UNION {OneOption(FamilyLinks, OptionForms(OptQ, OptQuality, v)) : v \in QualityValues}

VerbosityArgvs ==
    UNION {OneOption(FamilyLinks, OptionForms(OptV, OptVerbosity, v)) : v \in VerbosityValues}

\* links, verbosity, and every valid quality / threads pair
FullArgvs ==
    {l \o <<OptV, ValX, OptQ, q, OptT, PyStr(IntV(t))>> :
        l \in FamilyLinks, q \in QualityChoices, t \in ThreadsChoices}

Argvs == GeneralArgvs \cup ThreadsArgvs \cup QualityArgvs \cup VerbosityArgvs \cup FullArgvs

(* ------------------------------ the program ----------------------------- *)
VARIABLES
    argv,                \* sys.argv[1:]
    pc,                  \* the line of downloader.py about to run
    arg_strings_pattern, \* _parse_known_args: the 'A'/'O'/'-' pattern
    start_index,         \* _parse_known_args: next arg string (1-based)
    positionals,         \* _parse_known_args: positionals still to parse
    seen_actions,        \* _parse_known_args: actions taken so far
    extras,              \* _parse_known_args: unrecognized arg strings
    namespace,           \* the Namespace being filled
    args,                \* the module-level `args` (None until line 10 returns)
    stdout,              \* lines written to standard output
    stderr,              \* lines written to standard error
    exit_code            \* None while running, then the process exit status

vars == <<argv, pc, arg_strings_pattern, start_index, positionals, seen_actions,
          extras, namespace, args, stdout, stderr, exit_code>>

parseVars == <<arg_strings_pattern, start_index, positionals, seen_actions,
               extras, namespace>>

\* a ParsedArguments value has been produced
Parsed == args # NoNamespace

Line(fmt, arg) == [fmt |-> fmt, arg |-> arg]
UsageLine == Line("usage: downloader.py [-h] [-v VERBOSITY] [-q {1080p,720p,480p}] [-t {1..31}] links [links ...]", <<>>)
HelpText == <<UsageLine, Line("positional arguments / options", <<>>)>>

Init ==
    /\ argv \in Argvs
    /\ pc = "line10"
    /\ arg_strings_pattern = <<>>
    /\ start_index = 1
    /\ positionals = <<"links">>
    /\ seen_actions = {}
    /\ extras = <<>>
    /\ namespace = NoNamespace
    /\ args = NoNamespace
    /\ stdout = <<>>
    /\ stderr = <<>>
    /\ exit_code = None

\* the status parser.error exits with
ErrorStatus == 2

\* variant of Error: the message is printed but the status is 0
ErrorStatusZero(message) ==
    /\ stderr' = stderr \o <<UsageLine, Line("downloader.py: error: {}", message)>>
    /\ exit_code' = IntV(0)
    /\ pc' = "done"
    /\ UNCHANGED <<args, stdout>>

\* parser.error(message): usage and message on stderr, exit status 2
Error(message) ==
    /\ stderr' = stderr \o <<UsageLine, Line("downloader.py: error: {}", message)>>
    /\ exit_code' = IntV(ErrorStatus)
    /\ pc' = "done"
    /\ UNCHANGED <<args, stdout>>

\* _HelpAction: parser.print_help() on stdout, then parser.exit() with status 0
Help ==
    /\ stdout' = stdout \o HelpText
    /\ exit_code' = IntV(0)
    /\ pc' = "done"
    /\ UNCHANGED <<args, stderr>>

\* line 10, entry of parse_args: defaults into the namespace, then every arg
\* string is classified
ParseArgs ==
    /\ pc = "line10"
    /\ arg_strings_pattern' = ArgStringsPattern(argv)
    /\ namespace' = DefaultNamespace
    /\ UNCHANGED <<argv, start_index, positionals, seen_actions, extras>>
    /\ IF ClassifyFails(argv, arg_strings_pattern')
       THEN Error("ambiguous option")
       ELSE /\ pc' = "loop"
            /\ UNCHANGED <<args, stdout, stderr, exit_code>>

MaxOptionStringIndex ==
    LET indices == OptionStringIndices(arg_strings_pattern)
    IN  IF indices = {} THEN 0
        ELSE CHOOSE i \in indices : \A j \in indices : j <= i

NextOptionStringIndex ==
    LET indices == {i \in OptionStringIndices(arg_strings_pattern) : i >= start_index}
    IN  CHOOSE i \in indices : \A j \in indices : i <= j

\* arg_counts of consume_positionals(start_index)
ArgCounts == MatchArgumentsPartial(positionals, Tail2(arg_strings_pattern, start_index))

\* consume_positionals: the namespace after take_action(links, args)
LinksTaken ==
    TakeAction(namespace, seen_actions, "links",
               SubSeq(argv, start_index, start_index + ArgCounts[1] - 1))

\* line 10, one turn of the while loop that consumes positionals before the
\* next option string and continues
ConsumePositionals ==
    /\ pc = "loop"
    /\ start_index <= MaxOptionStringIndex
    /\ start_index # NextOptionStringIndex
    /\ ArgCounts # <<>>
    /\ \E r \in {LinksTaken} :
          /\ namespace' = r.ns
          /\ seen_actions' = r.seen
    /\ positionals' = <<>>
    /\ start_index' = start_index + ArgCounts[1]
    /\ UNCHANGED <<argv, pc, arg_strings_pattern, extras, args, stdout, stderr, exit_code>>

\* line 10, one turn of the while loop that reaches consume_optional: arg
\* strings no positional took go to extras, then the option takes its
\* arguments and its actions are called
ConsumeOptionalStep ==
    /\ pc = "loop"
    /\ start_index <= MaxOptionStringIndex
    /\ start_index = NextOptionStringIndex \/ ArgCounts = <<>>
    /\ \E at \in {NextOptionStringIndex} :
       \E m \in {ConsumeOptional(argv, arg_strings_pattern, at)} :
       \E r \in {TakeActions(namespace, seen_actions, m.action_tuples)} :
       LET skipped == SubSeq(argv, start_index, at - 1)
       IN  /\ UNCHANGED <<argv, arg_strings_pattern, positionals>>
           /\ CASE m.kind = "extra" ->
                     /\ extras' = extras \o skipped \o <<argv[at]>>
                     /\ start_index' = m.stop
                     /\ UNCHANGED <<pc, namespace, seen_actions, args, stdout,
                                    stderr, exit_code>>
                [] m.kind = "error" ->
                     /\ Error(m.msg)
                     /\ UNCHANGED <<start_index, extras, namespace, seen_actions>>
                [] m.kind = "ok" /\ r.kind = "error" ->
                     /\ Error(r.msg)
                     /\ UNCHANGED <<start_index, extras, namespace, seen_actions>>
                [] m.kind = "ok" /\ r.kind = "help" ->
                     /\ Help
                     /\ UNCHANGED <<start_index, extras, namespace, seen_actions>>
                [] m.kind = "ok" /\ r.kind = "ok" ->
                     /\ extras' = extras \o skipped
                     /\ start_index' = m.stop
                     /\ namespace' = r.ns
                     /\ seen_actions' = r.seen
                     /\ UNCHANGED <<pc, args, stdout, stderr, exit_code>>

\* line 10, after the loop: the positionals after the last option, the
\* required check, the "unrecognized arguments" check, then `args = ...`
FinishParse ==
    /\ pc = "loop"
    /\ start_index > MaxOptionStringIndex
    /\ \E arg_counts \in {ArgCounts} :
       \E r \in {IF arg_counts # <<>> THEN LinksTaken ELSE Taken(namespace, seen_actions)} :
       LET taken == arg_counts # <<>>
           stop_index == IF taken THEN start_index + arg_counts[1] ELSE start_index
           ns == r.ns
           seen == r.seen
           all_extras == extras \o Tail2(argv, stop_index)
       IN  /\ namespace' = ns
           /\ seen_actions' = seen
           /\ positionals' = IF taken THEN <<>> ELSE positionals
           /\ start_index' = stop_index
           /\ extras' = all_extras
           /\ UNCHANGED <<argv, arg_strings_pattern>>
           /\ IF \E a \in Actions : Required(a) /\ a \notin seen
              THEN Error("the following arguments are required")
              ELSE IF all_extras # <<>>
              THEN Error("unrecognized arguments")
              ELSE /\ args' = ns
                   /\ pc' = "line12"
                   /\ UNCHANGED <<stdout, stderr, exit_code>>

\* line 12: `if args.verbosity:`; the script ends with status 0 otherwise
Line12 ==
    /\ pc = "line12"
    /\ IF Truthy(args.verbosity)
       THEN pc' = "line13" /\ UNCHANGED exit_code
       ELSE pc' = "done" /\ exit_code' = IntV(0)
    /\ UNCHANGED <<argv, parseVars, args, stdout, stderr>>

\* line 13: print("Verbose mode")
Line13 ==
    /\ pc = "line13"
    /\ stdout' = Append(stdout, Line("Verbose mode", <<>>))
    /\ pc' = "line14"
    /\ UNCHANGED <<argv, parseVars, args, stderr, exit_code>>

\* variant of Line14: the threads line is printed in place of the quality line
Line14Threads ==
    /\ pc = "line14"
    /\ stdout' = Append(stdout, Line("Downloading with {} threads", PyStr(args.threads)))
    /\ pc' = "line15"
    /\ UNCHANGED <<argv, parseVars, args, stderr, exit_code>>

\* line 14: print("Downloading", args.quality)
Line14 ==
    /\ pc = "line14"
    /\ stdout' = Append(stdout, Line("Downloading {}", PyStr(args.quality)))
    /\ pc' = "line15"
    /\ UNCHANGED <<argv, parseVars, args, stderr, exit_code>>

\* line 15: print("Downloading with {} threads".format(args.threads)), the
\* last statement: the process ends with status 0
Line15 ==
    /\ pc = "line15"
    /\ stdout' = Append(stdout, Line("Downloading with {} threads", PyStr(args.threads)))
    /\ pc' = "done"
    /\ exit_code' = IntV(0)
    /\ UNCHANGED <<argv, parseVars, args, stderr>>

Next ==
    \/ ParseArgs
    \/ ConsumePositionals
    \/ ConsumeOptionalStep
    \/ FinishParse
    \/ Line12
    \/ Line13
    \/ Line14
    \/ Line15

Spec == Init /\ [][Next]_vars

\* the interpreter runs the script statement after statement until it ends
FairSpec == Spec /\ WF_vars(Next)

(* ======================== vocabulary of the claims ====================== *)
\* an arg string that is neither an option flag nor the "--" separator
IsPlain(tok) == tok # DashDash /\ ParseOptional(tok).kind = "A"

\* an option flag that takes the following arg string as its value
TakesNextValue(tok) ==
    /\ ParseOptional(tok).kind = "O"
    /\ ParseOptional(tok).action \in {"verbosity", "quality", "threads"}
    /\ ParseOptional(tok).explicit_arg.kind = "none"

RECURSIVE PositionalFrom(_, _, _)
\* the arg strings that are not option flags, not values of option flags and
\* not the first "--", in order (after "--" every arg string is positional)
PositionalFrom(v, i, afterDashes) ==
    IF i > Len(v) THEN <<>>
    ELSE IF afterDashes THEN <<v[i]>> \o PositionalFrom(v, i + 1, TRUE)
    ELSE IF v[i] = DashDash THEN PositionalFrom(v, i + 1, TRUE)
    ELSE IF TakesNextValue(v[i]) THEN PositionalFrom(v, i + 2, FALSE)
    ELSE IF ParseOptional(v[i]).kind # "A" THEN PositionalFrom(v, i + 1, FALSE)
    ELSE <<v[i]>> \o PositionalFrom(v, i + 1, FALSE)

PositionalTokens(v) == PositionalFrom(v, 1, FALSE)

RECURSIVE OptionValuesFrom(_, _, _)
\* the values passed to the option with dest action, before any "--":
\* "-t 5" and "-t5" / "-t=5" / "--threads=5" all pass "5"
OptionValuesFrom(v, i, action) ==
    IF i > Len(v) \/ v[i] = DashDash THEN {}
    ELSE LET o == ParseOptional(v[i])
         IN  IF TakesNextValue(v[i])
             THEN (IF o.action = action /\ i < Len(v) /\ IsPlain(v[i + 1])
                   THEN {v[i + 1]} ELSE {})
                  \cup OptionValuesFrom(v, i + 2, action)
             ELSE (IF o.kind = "O" /\ o.action = action /\ o.explicit_arg.kind = "str"
                   THEN {o.explicit_arg.val} ELSE {})
                  \cup OptionValuesFrom(v, i + 1, action)

OptionValues(v, action) == OptionValuesFrom(v, 1, action)

\* the -v / --verbosity flag stands in the argument vector (before any "--")
VerbosityFlagPresent(v) ==
    \E i \in 1..Len(v) :
        /\ \A j \in 1..(i - 1) : v[j] # DashDash
        /\ ParseOptional(v[i]).kind = "O"
        /\ ParseOptional(v[i]).action = "verbosity"

\* one or more links and nothing else
OnlyLinks(v) == v # <<>> /\ \A i \in 1..Len(v) : IsPlain(v[i])

\* the values T for which f is one way of writing "short T" / "long T"
FormValues(f, short, long) ==
    (IF Len(f) = 2 /\ f[1] \in {short, long} THEN {f[2]} ELSE {})
    \cup (IF Len(f) = 1 /\ StartsWith(f[1], short \o <<"=">>)
          THEN {Tail2(f[1], Len(short) + 2)} ELSE {})
    \cup (IF Len(f) = 1 /\ StartsWith(f[1], long \o <<"=">>)
          THEN {Tail2(f[1], Len(long) + 2)} ELSE {})
    \cup (IF Len(f) = 1 /\ StartsWith(f[1], short) /\ Len(f[1]) > Len(short)
             /\ f[1][Len(short) + 1] # "="
          THEN {Tail2(f[1], Len(short) + 1)} ELSE {})

\* the values T such that v is one or more links followed or preceded by
\* the option short / long with value T, and nothing else
OneOptionValues(v, short, long) ==
    UNION {
        (IF OnlyLinks(SubSeq(v, 1, Len(v) - k))
         THEN FormValues(SubSeq(v, Len(v) - k + 1, Len(v)), short, long) ELSE {})
        \cup
        (IF OnlyLinks(SubSeq(v, k + 1, Len(v)))
         THEN FormValues(SubSeq(v, 1, k), short, long) ELSE {})
        : k \in {j \in {1, 2} : j < Len(v)}}

\* the three lines of the summary for a parsed namespace
SummaryLines(a) ==
    <<Line("Verbose mode", <<>>),
      Line("Downloading {}", PyStr(a.quality)),
      Line("Downloading with {} threads", PyStr(a.threads))>>

\* at least the first line of the summary is on standard output
SummaryPrinted == stdout # <<>> /\ stdout[1] = Line("Verbose mode", <<>>)

\* the help text is on standard output
HelpPrinted == stdout # <<>> /\ stdout[1] = UsageLine

\* the process ended with a usage error
UsageError == exit_code = IntV(ErrorStatus) /\ stderr # <<>>

(* =============================== claims ================================= *)

\* C1: whenever a ParsedArguments value exists, links is a non-empty list,
\* quality is one of "1080p", "720p", "480p" and threads is an integer with
\* 1 <= threads <= 31.
C1_ValidatedOnSuccess ==
    Parsed =>
        /\ args.links.kind = "list" /\ args.links.val # <<>>
        /\ args.quality.kind = "str" /\ args.quality.val \in {Q1080p, Q720p, Q480p}
        /\ args.threads.kind = "int" /\ args.threads.val >= 1 /\ args.threads.val <= 31

C4_ThreadsAcceptedIffInRange ==
    pc = "done" =>
        \A T \in OneOptionValues(argv, OptT, OptThreads) :
            IF PyInt(T).ok /\ PyInt(T).val \in 1..31
            THEN Parsed /\ args.threads = IntV(PyInt(T).val)
            ELSE ~Parsed /\ UsageError

\* C5: with one or more links and -q/--quality Q, parsing succeeds with
\* quality = Q when Q is "1080p", "720p" or "480p", and ends in a usage error
\* for every other Q.
C5_QualityAcceptedIffChoice ==
    pc = "done" =>
        \A Q \in OneOptionValues(argv, OptQ, OptQuality) :
            IF Q \in {Q1080p, Q720p, Q480p}
            THEN Parsed /\ args.quality = Str(Q)
            ELSE ~Parsed /\ UsageError

\* C6: an invocation of one or more links and no option parses with
\* quality "720p", threads 1, verbosity unset, and prints nothing.
C6_DefaultsWithoutFlags ==
    (pc = "done" /\ OnlyLinks(argv)) =>
        /\ Parsed
        /\ args.links = ListV(argv)
        /\ args.quality = Str(<<"7", "2", "0", "p">>)
        /\ args.threads = IntV(1)
        /\ args.verbosity = None
        /\ stdout = <<>>

\* C6 witness: two links and nothing else were parsed.
C6_Witness ==
    /\ pc = "done" /\ Parsed
    /\ OnlyLinks(argv) /\ Len(argv) >= 2

\* C7: standard output of a successful run is always a prefix of the three
\* summary lines (notice, quality, threads, in this order), and at the end
\* it holds none or all three of them; with quality 1080p and 4 threads the
\* lines carry "1080p" and "4".
C7_SummaryLinesInOrder ==
    Parsed =>
        /\ \E n \in 0..3 : stdout = SubSeq(SummaryLines(args), 1, n)
        /\ pc = "done" => Len(stdout) \in {0, 3}
        /\ (Len(stdout) = 3 /\ args.quality = Str(Q1080p) /\ args.threads = IntV(4)) =>
              /\ stdout[2] = Line("Downloading {}", <<"1", "0", "8", "0", "p">>)
              /\ stdout[3] = Line("Downloading with {} threads", <<"4">>)

\* C7 witness: the summary of -q 1080p -t 4 is complete.
C7_Witness ==
    /\ pc = "done" /\ Len(stdout) = 3
    /\ args.quality = Str(Q1080p) /\ args.threads = IntV(4)

\* C8: the exit status is 0 when parsing succeeds or help is printed, and
\* nonzero -- with no ParsedArguments and no summary -- for every other
\* invocation with no links, an invalid quality value, or a threads value
\* that is not an integer in 1..31.
C8_ExitCodes ==
    pc = "done" =>
        /\ (Parsed \/ HelpPrinted) => exit_code = IntV(0)
        /\ ( /\ ~HelpPrinted
             /\ \/ PositionalTokens(argv) = <<>>
                \/ \E Q \in OptionValues(argv, "quality") : Q \notin {Q1080p, Q720p, Q480p}
                \/ \E T \in OptionValues(argv, "threads") :
                      ~(PyInt(T).ok /\ PyInt(T).val \in 1..31) )
           => (exit_code # IntV(0) /\ ~Parsed /\ ~SummaryPrinted)

\* the three ways a run ends
Success == Parsed /\ exit_code = IntV(0) /\ stderr = <<>> /\ Len(stdout) \in {0, 3}
ValidationFailure == ~Parsed /\ UsageError /\ stdout = <<>>
HelpExited == ~Parsed /\ exit_code = IntV(0) /\ stderr = <<>> /\ stdout = HelpText

\* C9 (as stated): a finished run either produced a ParsedArguments value or
\* ended in a validation failure, never anything else.
C9_TwoOutcomes ==
    pc = "done" => (Success /\ ~ValidationFailure) \/ (ValidationFailure /\ ~Success)

\* C9 (amended): every run finishes, and a finished run ended in exactly one
\* of three ways: success, validation failure, or the help exit (status 0,
\* no ParsedArguments).
C9_ThreeOutcomes ==
    /\ <>(pc = "done")
    /\ [](pc = "done" =>
            \/ (Success /\ ~ValidationFailure /\ ~HelpExited)
            \/ (ValidationFailure /\ ~Success /\ ~HelpExited)
            \/ (HelpExited /\ ~Success /\ ~ValidationFailure))

\* C9 witness: a run that ended by printing help.
C9_Witness == pc = "done" /\ HelpExited

====
